---- MODULE Spec2Model ----
(***************************************************************************)
(* Re-ranking subsystem of Scalable_Graph_Retrieval:                       *)
(*   build_joint_graph, build_label_diff_dataset                           *)
(*       (Graph_Retriever/train_re_ranker.py)                              *)
(*   GraphTransformerEncoder.forward                                       *)
(*       (Siamese-Graphormer/network/encoder.py)                           *)
(*                                                                         *)
(* Tensors are modelled by their shape and their entries:                  *)
(*   node-feature matrix  : a sequence of rows, a row being the identity   *)
(*                          of the node it belongs to                      *)
(*   edge index (2 x E)   : a sequence of columns <<source, target>>       *)
(*   edge features (E x w): [rows |-> sequence of rows, w |-> width]       *)
(*   1-D integer tensor   : a sequence of integers                         *)
(* Node ids are 0-based as in the code; sequences are 1-based.             *)
(***************************************************************************)
EXTENDS Integers, Sequences, FiniteSets, TLC

VARIABLES
    pc,          \* the statement the call in progress is at, "done" or "raised"
    arg,         \* the call's arguments, as the caller holds them
    err,         \* the exception raised, if any
    ret,         \* the value returned, once pc = "done"
    \* locals of build_joint_graph and of GraphTransformerEncoder.forward
    x, edge_index, edge_attr, batch,
    \* locals of build_joint_graph
    q_data, c_data, N_q, N_c, cross_edges,
    \* locals of build_label_diff_dataset; sampled records the index pair
    \* drawn by each iteration (pairs[t] was built from sampled[t])
    min_label, max_label, norm_labels, pairs, sampled,
    \* locals of GraphTransformerEncoder.forward
    batch_size, virtual_index, repeated_virtual, all_nodes, virtual_edges,
    new_edge_index, new_edge_attr

jgVars == <<q_data, c_data, N_q, N_c, cross_edges>>
dsVars == <<min_label, max_label, norm_labels, pairs, sampled>>
encVars == <<batch_size, virtual_index, repeated_virtual, all_nodes,
             virtual_edges, new_edge_index, new_edge_attr>>
vars == <<pc, arg, err, ret, x, edge_index, edge_attr, batch,
          jgVars, dsVars, encVars>>

\* ------------------------------------------------------------------ bounds
MaxN == 2
MaxE == 1

\* ------------------------------------------------------------- Python None
None == "None"

\* ---------------------------------------------------------- tensor helpers
\* torch.zeros((k, w)): k rows of w zeros
Zeros(k, w) == [rows |-> [e \in 1..k |-> [f \in 1..w |-> 0]], w |-> w]

\* torch.arange(lo, hi)
Arange(lo, hi) == [k \in 1..(hi - lo) |-> lo + k - 1]

\* edge_index + off : a new tensor, every entry shifted
ShiftEdges(ei, off) == [e \in 1..Len(ei) |-> <<ei[e][1] + off, ei[e][2] + off>>]

\* torch.cat([a, b], dim=0) of two 2-D edge-feature matrices: the widths
\* must agree, also when one of them has no rows
CatRowsOk(a, b) == a.w = b.w
CatRows(a, b) == [rows |-> a.rows \o b.rows, w |-> a.w]

\* torch.tensor(list_of_pairs, dtype=torch.long).t(): a non-empty list of
\* pairs gives a K x 2 tensor, transposed to 2 x K; the empty list gives a
\* 1-D tensor of shape (0,), which .t() returns as it is
TensorT(list) ==
    IF list = <<>> THEN [dim |-> 1, cols |-> <<>>]
                   ELSE [dim |-> 2, cols |-> list]

\* torch.cat([edge_index, t], dim=1): a 1-D empty tensor is skipped
CatCols(ei, t) == ei \o t.cols

\* ------------------------------------------------------------------ graphs
\* utils.graph_utils.preprocess_graph lives outside the two files modelled
\* here. The builder's precondition is that its graphs are feature-encoded
\* with 2-D edge features, and graphs are immutable inputs: the graph comes
\* back with the nodes, edges and edge features it had.
preprocess_graph(g) == g

\* Data.num_nodes: the number of rows of x
num_nodes(g) == Len(g.x)

\* ------------------------------------------------------- build_joint_graph
\* one iteration of the inner loop: the two appends
CrossPairOneWay(ii, jj, Nq) == << <<ii, Nq + jj>>, <<ii, Nq + jj>> >>
CrossPair(ii, jj, Nq) == << <<ii, Nq + jj>>, <<Nq + jj, ii>> >>

RECURSIVE InnerLoop(_, _, _, _)
InnerLoop(ii, jj, Nq, Nc) ==
    IF jj >= Nc THEN <<>>
    ELSE CrossPair(ii, jj, Nq) \o InnerLoop(ii, jj + 1, Nq, Nc)

RECURSIVE OuterLoop(_, _, _)
OuterLoop(ii, Nq, Nc) ==
    IF ii >= Nq THEN <<>>
    ELSE InnerLoop(ii, 0, Nq, Nc) \o OuterLoop(ii + 1, Nq, Nc)

\* the list cross_edges after the nested loops
CrossEdgeList(Nq, Nc) == OuterLoop(0, Nq, Nc)

\* c_data.edge_index + N_q
OffsetNone(ei, Nq) == ei
OffsetCandidate(ei, Nq) == ShiftEdges(ei, Nq)

\* cross_attr: one zero row per cross edge, of edge_attr's width
CrossAttr(k, w) == Zeros(k, w)

\* the Data object returned
Data(xx, ei, ea, bb, yy) ==
    [x |-> xx, edge_index |-> ei, edge_attr |-> ea, batch |-> bb, y |-> yy]

\* An optional scalar is a sequence of at most one element: <<>> is None.
\* y = torch.tensor([label_diff]) if label_diff is not None else None
Target(label_diff) == IF label_diff = <<>> THEN <<>> ELSE <<label_diff[1]>>

\* The whole function as a value: [err, data]
build_joint_graph(q0, c0, label_diff) ==
    LET q  == preprocess_graph(q0)
        c  == preprocess_graph(c0)
        Nq == num_nodes(q)
        Nc == num_nodes(c)
        ce == TensorT(CrossEdgeList(Nq, Nc))
        ei == CatCols(q.edge_index \o OffsetCandidate(c.edge_index, Nq), ce)
    IN  IF ~CatRowsOk(q.edge_attr, c.edge_attr)
        THEN [err |-> "RuntimeError", data |-> None]
        ELSE IF ce.dim < 2
        THEN [err |-> "IndexError", data |-> None]
        ELSE [err |-> None,
              data |-> Data(q.x \o c.x, ei,
                            CatRows(CatRows(q.edge_attr, c.edge_attr),
                                    CrossAttr(Len(ce.cols), q.edge_attr.w)),
                            [n \in 1..(Nq + Nc) |-> 0],
                            Target(label_diff))]

\* ---- inputs
Widths == {1, 2}
LabelDiffs == {<<>>, <<2>>}

EdgeSeqs(n) ==
    UNION {[1..k -> (0..(n - 1)) \X (0..(n - 1))] : k \in 0..MaxE}

\* Graph t has node rows <<t, 0>>, <<t, 1>>, ...; the feature row of its
\* edge e is distinct per edge and per graph, and never zero
FeatBase(t) == 10 * (t + 1)
FeatRow(t, e, w) == [f \in 1..w |-> FeatBase(t) + e]

MkGraph(t, n, ei, w) ==
    [x         |-> [r \in 1..n |-> <<t, r - 1>>],
     edge_index |-> ei,
     edge_attr  |-> [rows |-> [e \in 1..Len(ei) |-> FeatRow(t, e, w)], w |-> w]]

Graphs(t) ==
    UNION {{MkGraph(t, n, ei, w) : ei \in EdgeSeqs(n), w \in Widths} : n \in 0..MaxN}

\* ---- build_joint_graph, statement by statement
InitJG ==
    /\ pc = "jg_preprocess"
    /\ arg \in [q_data : Graphs(0), c_data : Graphs(1), label_diff : LabelDiffs]
    /\ err = None
    /\ ret = None
    /\ q_data = None /\ c_data = None /\ N_q = 0 /\ N_c = 0
    /\ x = None /\ edge_index = None /\ edge_attr = None
    /\ cross_edges = None /\ batch = None
    /\ min_label = None /\ max_label = None /\ norm_labels = None
    /\ pairs = None /\ sampled = None
    /\ batch_size = None /\ virtual_index = None /\ repeated_virtual = None
    /\ all_nodes = None /\ virtual_edges = None
    /\ new_edge_index = None /\ new_edge_attr = None

\* lines 23-24
JGPreprocess ==
    /\ pc = "jg_preprocess"
    /\ q_data' = preprocess_graph(arg.q_data)
    /\ c_data' = preprocess_graph(arg.c_data)
    /\ N_q' = num_nodes(q_data')
    /\ N_c' = num_nodes(c_data')
    /\ pc' = "jg_concat"
    /\ UNCHANGED <<arg, err, ret, x, edge_index, edge_attr, cross_edges, batch>>
    /\ UNCHANGED <<dsVars, encVars>>

\* lines 26-28; torch.cat raises when the edge-feature widths differ
JGConcat ==
    /\ pc = "jg_concat"
    /\ IF CatRowsOk(q_data.edge_attr, c_data.edge_attr)
       THEN /\ x' = q_data.x \o c_data.x
            /\ edge_index' = q_data.edge_index \o OffsetCandidate(c_data.edge_index, N_q)
            /\ edge_attr' = CatRows(q_data.edge_attr, c_data.edge_attr)
            /\ pc' = "jg_cross"
            /\ UNCHANGED err
       ELSE /\ err' = "RuntimeError"
            /\ pc' = "raised"
            /\ UNCHANGED <<x, edge_index, edge_attr>>
    /\ UNCHANGED <<arg, ret, q_data, c_data, N_q, N_c, cross_edges, batch>>
    /\ UNCHANGED <<dsVars, encVars>>

\* lines 30-36
JGCross ==
    /\ pc = "jg_cross"
    /\ cross_edges' = TensorT(CrossEdgeList(N_q, N_c))
    /\ edge_index' = CatCols(edge_index, cross_edges')
    /\ pc' = "jg_cross_attr"
    /\ UNCHANGED <<arg, err, ret, q_data, c_data, N_q, N_c, x, edge_attr, batch>>
    /\ UNCHANGED <<dsVars, encVars>>

\* lines 38-39; cross_edges.size(1) raises IndexError on a 1-D tensor
JGCrossAttr ==
    /\ pc = "jg_cross_attr"
    /\ IF cross_edges.dim >= 2
       THEN /\ edge_attr' = CatRows(edge_attr, CrossAttr(Len(cross_edges.cols), edge_attr.w))
            /\ pc' = "jg_return"
            /\ UNCHANGED err
       ELSE /\ err' = "IndexError"
            /\ pc' = "raised"
            /\ UNCHANGED edge_attr
    /\ UNCHANGED <<arg, ret, q_data, c_data, N_q, N_c, x, edge_index, cross_edges, batch>>
    /\ UNCHANGED <<dsVars, encVars>>

\* lines 41-43
JGReturn ==
    /\ pc = "jg_return"
    /\ batch' = [n \in 1..(N_q + N_c) |-> 0]
    /\ ret' = Data(x, edge_index, edge_attr, batch', Target(arg.label_diff))
    /\ pc' = "done"
    /\ UNCHANGED <<arg, err, q_data, c_data, N_q, N_c, x, edge_index, edge_attr, cross_edges>>
    /\ UNCHANGED <<dsVars, encVars>>

NextJG == JGPreprocess \/ JGConcat \/ JGCross \/ JGCrossAttr \/ JGReturn

SpecJG == InitJG /\ [][NextJG]_vars

\* ---- claims about build_joint_graph
\* the call's inputs, as the caller holds them
InA == arg.q_data
InB == arg.c_data
Na == Len(InA.x)
Nb == Len(InB.x)
Ea == Len(InA.edge_index)
Eb == Len(InB.edge_index)
JGFinished == pc \in {"done", "raised"}
SameWidth == InA.edge_attr.w = InB.edge_attr.w

AllZero(row) == \A f \in DOMAIN row : row[f] = 0

\* the shape of a returned joint graph
JointShape ==
    /\ ret.x = InA.x \o InB.x
    /\ Len(ret.x) = Na + Nb
    /\ Len(ret.edge_index) = Ea + Eb + 2 * Na * Nb
    /\ Len(ret.edge_attr.rows) = Len(ret.edge_index)
    /\ ret.edge_attr.w = InA.edge_attr.w
    /\ \A e \in DOMAIN ret.edge_attr.rows : Len(ret.edge_attr.rows[e]) = InA.edge_attr.w
    /\ Len(ret.batch) = Na + Nb
    /\ \A n \in DOMAIN ret.batch : ret.batch[n] = 0

\* C1: for all graphs A and B of equal edge-feature width, the call returns
\* a graph with N_a+N_b nodes (A's rows, then B's), E_a+E_b+2*N_a*N_b edge
\* columns, as many edge-feature rows of the source width, and an all-zero
\* batch vector of length N_a+N_b.
C1_ReturnsJointShape ==
    (JGFinished /\ SameWidth) => (pc = "done" /\ JointShape)

\* every graph the call does return has that shape
JG_ShapeWhenReturned == (pc = "done") => JointShape

\* the edges appended after A's and B's own
Bridge == SubSeq(ret.edge_index, Ea + Eb + 1, Len(ret.edge_index))
Occurrences(seq, v) == Cardinality({k \in DOMAIN seq : seq[k] = v})

\* C2: the bridge block of the output holds, for every i < N_a and j < N_b,
\* (i, N_a+j) exactly once and (N_a+j, i) exactly once and nothing else, and
\* every bridge edge has an all-zero feature row.
C2_BridgeIsCompleteBipartite ==
    (pc = "done") =>
        /\ \A ii \in 0..(Na - 1), jj \in 0..(Nb - 1) :
              /\ Occurrences(Bridge, <<ii, Na + jj>>) = 1
              /\ Occurrences(Bridge, <<Na + jj, ii>>) = 1
        /\ \A k \in DOMAIN Bridge :
              \E ii \in 0..(Na - 1), jj \in 0..(Nb - 1) :
                  Bridge[k] \in {<<ii, Na + jj>>, <<Na + jj, ii>>}
        /\ \A k \in DOMAIN Bridge :
              /\ Ea + Eb + k \in DOMAIN ret.edge_attr.rows
              /\ AllZero(ret.edge_attr.rows[Ea + Eb + k])

C2_Witness == pc = "done" /\ Na = 2 /\ Nb = 2 /\ Ea + Eb >= 1

\* C5: with N_a = 0 or N_b = 0 the call does not raise; it returns the
\* original edges (B's offset by N_a) with an empty bridge and as many
\* edge-feature rows as edges.
C5_EmptySideDoesNotRaise ==
    (JGFinished /\ SameWidth /\ (Na = 0 \/ Nb = 0)) =>
        /\ pc = "done"
        /\ ret.edge_index = InA.edge_index \o ShiftEdges(InB.edge_index, Na)
        /\ Len(ret.edge_attr.rows) = Len(ret.edge_index)

\* C9: the first E_a columns of the output are A's edges, the next E_b are
\* B's edges shifted by N_a and lie in [N_a, N_a+N_b), feature row e is the
\* source row of the edge in column e, every endpoint is a node of the
\* output, and the input graphs' edge indices are as they were.
C9_OffsetAndAlignment ==
    (pc = "done") =>
        /\ \A e \in 1..Ea :
              /\ ret.edge_index[e] = InA.edge_index[e]
              /\ ret.edge_attr.rows[e] = InA.edge_attr.rows[e]
        /\ \A e \in 1..Eb :
              /\ ret.edge_index[Ea + e] =
                   <<InB.edge_index[e][1] + Na, InB.edge_index[e][2] + Na>>
              /\ ret.edge_index[Ea + e][1] \in Na..(Na + Nb - 1)
              /\ ret.edge_index[Ea + e][2] \in Na..(Na + Nb - 1)
              /\ ret.edge_attr.rows[Ea + e] = InB.edge_attr.rows[e]
        /\ \A e \in DOMAIN ret.edge_index :
              /\ ret.edge_index[e][1] \in 0..(Na + Nb - 1)
              /\ ret.edge_index[e][2] \in 0..(Na + Nb - 1)
        /\ q_data.edge_index = InA.edge_index
        /\ c_data.edge_index = InB.edge_index

C9_Witness == pc = "done" /\ Na = 2 /\ Ea = MaxE /\ Eb = MaxE /\ Nb >= 1

\* ------------------------------------------------ build_label_diff_dataset
MaxGraphs == 3
MaxPairs == 2

\* A float is the fraction num/den with den >= 0; den = 0 stands for the
\* IEEE values a division by zero gives: 0/0 is nan, +-1/0 is +-inf.
\* Rounding is not modelled.
NaN == [num |-> 0, den |-> 0]
IsNaN(f) == f.den = 0 /\ f.num = 0
IsFinite(f) == f.den > 0
FromInt(n) == [num |-> n, den |-> 1]
Sign(n) == IF n > 0 THEN 1 ELSE IF n < 0 THEN -1 ELSE 0

\* numpy's n / d: a zero divisor warns and yields nan or inf, it does not raise
FDiv(n, d) ==
    IF d = 0 THEN [num |-> Sign(n), den |-> 0]
    ELSE IF d < 0 THEN [num |-> -n, den |-> -d]
    ELSE [num |-> n, den |-> d]

FSub(a, b) ==
    IF IsNaN(a) \/ IsNaN(b) THEN NaN
    ELSE IF a.den = 0 /\ b.den = 0 THEN (IF a.num = b.num THEN NaN ELSE a)
    ELSE IF a.den = 0 THEN a
    ELSE IF b.den = 0 THEN [num |-> -b.num, den |-> 0]
    ELSE [num |-> a.num * b.den - b.num * a.den, den |-> a.den * b.den]

\* np.min(labels), np.max(labels)
NpMin(ls) == CHOOSE m \in {ls[k] : k \in DOMAIN ls} : \A k \in DOMAIN ls : m <= ls[k]
NpMax(ls) == CHOOSE m \in {ls[k] : k \in DOMAIN ls} : \A k \in DOMAIN ls : m >= ls[k]

\* line 49, elementwise: 2 * (labels - min_label) / (max_label - min_label) - 1
Normalize(ls, mn, mx) ==
    [k \in DOMAIN ls |-> FSub(FDiv(2 * (ls[k] - mn), mx - mn), FromInt(1))]

\* line 53: random.sample(range(n), 2), an ordered pair of distinct indices
SampleWithSelf(n) == (0..(n - 1)) \X (0..(n - 1))
Sample(n) == {p \in (0..(n - 1)) \X (0..(n - 1)) : p[1] # p[2]}

\* line 54
LabelDiff(norm, ii, jj) == FSub(norm[ii + 1], norm[jj + 1])

\* ---- inputs: the dataset's molecule graphs (at least one node each, one
\* edge, feature width 1) and integer-valued labels
LabelVals == {1, 3, 5}
DSGraph(k) == MkGraph(k, (k % 2) + 1, << <<0, 0>> >>, 1)

InitDS ==
    /\ pc = "ds_normalize"
    /\ \E n \in 1..MaxGraphs, k \in 0..MaxPairs :
          \E ls \in [1..n -> LabelVals] :
              arg = [graphs |-> [g \in 1..n |-> DSGraph(g - 1)],
                     labels |-> ls, num_pairs |-> k]
    /\ err = None
    /\ ret = None
    /\ x = None /\ edge_index = None /\ edge_attr = None /\ batch = None
    /\ q_data = None /\ c_data = None /\ N_q = 0 /\ N_c = 0
    /\ cross_edges = None
    /\ min_label = None /\ max_label = None /\ norm_labels = None
    /\ pairs = None /\ sampled = None
    /\ batch_size = None /\ virtual_index = None /\ repeated_virtual = None
    /\ all_nodes = None /\ virtual_edges = None
    /\ new_edge_index = None /\ new_edge_attr = None

\* lines 47-51
DSNormalize ==
    /\ pc = "ds_normalize"
    /\ min_label' = NpMin(arg.labels)
    /\ max_label' = NpMax(arg.labels)
    /\ norm_labels' = Normalize(arg.labels, min_label', max_label')
    /\ pairs' = <<>>
    /\ sampled' = <<>>
    /\ pc' = "ds_loop"
    /\ UNCHANGED <<arg, err, ret, x, edge_index, edge_attr, batch, jgVars, encVars>>

\* lines 52-56, one iteration; random.sample raises ValueError when the
\* population has fewer than 2 elements, and an exception of
\* build_joint_graph propagates
DSIterate ==
    /\ pc = "ds_loop"
    /\ Len(pairs) < arg.num_pairs
    /\ IF Len(arg.graphs) < 2
       THEN /\ err' = "ValueError"
            /\ pc' = "raised"
            /\ UNCHANGED <<pairs, sampled>>
       ELSE \E p \in Sample(Len(arg.graphs)) :
              LET label_diff  == LabelDiff(norm_labels, p[1], p[2])
                  joint_graph == build_joint_graph(arg.graphs[p[1] + 1],
                                                   arg.graphs[p[2] + 1],
                                                   <<label_diff>>)
              IN  IF joint_graph.err = None
                  THEN /\ pairs' = Append(pairs, joint_graph.data)
                       /\ sampled' = Append(sampled, p)
                       /\ UNCHANGED <<pc, err>>
                  ELSE /\ err' = joint_graph.err
                       /\ pc' = "raised"
                       /\ UNCHANGED <<pairs, sampled>>
    /\ UNCHANGED <<arg, ret, min_label, max_label, norm_labels>>
    /\ UNCHANGED <<x, edge_index, edge_attr, batch, jgVars, encVars>>

\* line 57
DSReturn ==
    /\ pc = "ds_loop"
    /\ Len(pairs) >= arg.num_pairs
    /\ ret' = pairs
    /\ pc' = "done"
    /\ UNCHANGED <<arg, err, dsVars>>
    /\ UNCHANGED <<x, edge_index, edge_attr, batch, jgVars, encVars>>

NextDS == DSNormalize \/ DSIterate \/ DSReturn

SpecDS == InitDS /\ [][NextDS]_vars

\* ---- claims about build_label_diff_dataset
Graphs_ == arg.graphs
Labels == arg.labels
Degenerate == \A a, b \in DOMAIN Labels : Labels[a] = Labels[b]
DSPrecondition == Len(Graphs_) = Len(Labels) /\ Len(Graphs_) >= 2 /\ ~Degenerate

\* label difference of the index pair p, from the labels themselves:
\* norm[i] - norm[j] = 2 * (labels[i] - labels[j]) / (max_label - min_label)
TargetIs(y, p) ==
    /\ IsFinite(y)
    /\ y.num * (NpMax(Labels) - NpMin(Labels)) =
         y.den * 2 * (Labels[p[1] + 1] - Labels[p[2] + 1])

C4_DegenerateFailsFast ==
    (Degenerate /\ Len(Labels) >= 2 /\ pc \in {"ds_loop", "done"}) =>
        /\ pairs = <<>>
        /\ pc # "done"

\* what the code does instead: it returns, and every target is nan
DS_DegenerateGivesNaN ==
    (Degenerate /\ Len(Labels) >= 2 /\ pc = "done") =>
        /\ Len(ret) = arg.num_pairs
        /\ \A t \in DOMAIN ret : IsNaN(ret[t].y[1])

\* ----------------------------------------- GraphTransformerEncoder.forward
MaxReal == 3
MaxInst == 3
\* num_layers, the constructor's default
NumLayers == 3

\* A row of the node tensor: which node it is (a real node n, or copy k of
\* the virtual token), how many attention layers it has been through and
\* whether the output projection has been applied.
RealRow(n) == [kind |-> "real", id |-> n, layers |-> 0, stage |-> "input"]
VirtualRow(k) == [kind |-> "virtual", id |-> k, layers |-> 0, stage |-> "hidden"]

\* nn.Linear, applied to every row
input_proj(xx) == [r \in DOMAIN xx |-> [xx[r] EXCEPT !.stage = "hidden"]]
output_proj(xx) == [r \in DOMAIN xx |-> [xx[r] EXCEPT !.stage = "output"]]

\* EdgeConditionedGraphAttention.forward lives outside the two files
\* modelled here; its contract is one round of attention that returns one
\* row per input row, row p being the update of row p
Layer(xx, ei, ea) == [r \in DOMAIN xx |-> [xx[r] EXCEPT !.layers = @ + 1]]

RECURSIVE Layers(_, _, _, _)
Layers(k, xx, ei, ea) ==
    IF k = 0 THEN xx ELSE Layers(k - 1, Layer(xx, ei, ea), ei, ea)

\* edge_attr.unsqueeze(-1) of a 1-D tensor: every scalar becomes a row
Unsqueeze(ea) == [dim |-> 2, rows |-> [e \in DOMAIN ea.rows |-> <<ea.rows[e]>>], w |-> 1]

\* batch.max().item()
TensorMax(b) == CHOOSE m \in {b[k] : k \in DOMAIN b} : \A k \in DOMAIN b : m >= b[k]

\* self.virtual_token.repeat(batch_size, 1)
VirtualTokens(B) == [k \in 1..B |-> VirtualRow(k - 1)]

\* batch.bincount(): entry k counts the nodes of instance k, k = 0..max
Bincount(b) ==
    [k \in 1..(TensorMax(b) + 1) |-> Cardinality({n \in DOMAIN b : b[n] = k - 1})]

\* t.repeat_interleave(counts): t[k] repeated counts[k] times, in order
RECURSIVE RepeatFrom(_, _, _)
RepeatFrom(k, t, counts) ==
    IF k > Len(t) THEN <<>>
    ELSE [c \in 1..counts[k] |-> t[k]] \o RepeatFrom(k + 1, t, counts)

RepeatInterleave(t, counts) == RepeatFrom(1, t, counts)

\* torch.stack([a, b], dim=0) of two 1-D tensors of equal length, as columns
StackCols(a, b) == [c \in DOMAIN a |-> <<a[c], b[c]>>]

\* torch.stack([ei[1], ei[0]], dim=0)
KeepDirection(ei) == ei
Reverse(ei) == [c \in DOMAIN ei |-> <<ei[c][2], ei[c][1]>>]

\* xx[-B:]
FirstRows(xx, B) == SubSeq(xx, 1, B)
LastRows(xx, B) ==
    IF B = 0 THEN xx
    ELSE SubSeq(xx, (IF Len(xx) > B THEN Len(xx) - B ELSE 0) + 1, Len(xx))

\* ---- inputs: N real nodes, a batch vector of instance ids in any order
\* (gaps included), edges among the real nodes, 1-D or 2-D edge features
EncAttr(E, dim) ==
    IF dim = 1
    THEN [dim |-> 1, rows |-> [e \in 1..E |-> 10 + e], w |-> 0]
    ELSE [dim |-> 2, rows |-> [e \in 1..E |-> FeatRow(0, e, 2)], w |-> 2]

EncInput(N, ei, dim, b) ==
    [x |-> [n \in 1..N |-> RealRow(n - 1)],
     edge_index |-> ei,
     edge_attr |-> EncAttr(Len(ei), dim),
     batch |-> b]

InitEnc ==
    /\ pc = "enc_proj"
    /\ \E N \in 0..MaxReal :
          \E ei \in EdgeSeqs(N), dim \in {1, 2}, b \in [1..N -> 0..(MaxInst - 1)] :
              arg = EncInput(N, ei, dim, b)
    /\ err = None
    /\ ret = None
    /\ x = arg.x /\ edge_index = arg.edge_index
    /\ edge_attr = arg.edge_attr /\ batch = arg.batch
    /\ q_data = None /\ c_data = None /\ N_q = 0 /\ N_c = 0
    /\ cross_edges = None
    /\ min_label = None /\ max_label = None /\ norm_labels = None
    /\ pairs = None /\ sampled = None
    /\ batch_size = 0 /\ virtual_index = None /\ repeated_virtual = None
    /\ all_nodes = None /\ virtual_edges = None
    /\ new_edge_index = None /\ new_edge_attr = None

\* lines 22-25
EncProject ==
    /\ pc = "enc_proj"
    /\ x' = input_proj(x)
    /\ edge_attr' = IF edge_attr.dim = 1 THEN Unsqueeze(edge_attr) ELSE edge_attr
    /\ pc' = "enc_virtual"
    /\ UNCHANGED <<arg, err, ret, edge_index, batch, jgVars, dsVars, encVars>>

\* lines 27-29; max() of an empty tensor raises
EncVirtualTokens ==
    /\ pc = "enc_virtual"
    /\ IF batch = <<>>
       THEN /\ err' = "RuntimeError"
            /\ pc' = "raised"
            /\ UNCHANGED <<x, batch_size>>
       ELSE /\ batch_size' = TensorMax(batch) + 1
            /\ x' = x \o VirtualTokens(batch_size')
            /\ pc' = "enc_virtual_edges"
            /\ UNCHANGED err
    /\ UNCHANGED <<arg, ret, edge_index, edge_attr, batch, jgVars, dsVars>>
    /\ UNCHANGED <<virtual_index, repeated_virtual, all_nodes, virtual_edges,
                   new_edge_index, new_edge_attr>>

\* lines 31-35; the two stacked tensors both have len(batch) entries
EncVirtualEdges ==
    /\ pc = "enc_virtual_edges"
    /\ virtual_index' = Arange(Len(x) - batch_size, Len(x))
    /\ repeated_virtual' = RepeatInterleave(virtual_index', Bincount(batch))
    /\ all_nodes' = Arange(0, Len(batch))
    /\ virtual_edges' = StackCols(repeated_virtual', all_nodes')
    /\ pc' = "enc_edges"
    /\ UNCHANGED <<arg, err, ret, x, edge_index, edge_attr, batch, jgVars, dsVars>>
    /\ UNCHANGED <<batch_size, new_edge_index, new_edge_attr>>

\* lines 37-40
EncEdges ==
    /\ pc = "enc_edges"
    /\ LET cat == edge_index \o virtual_edges
       IN  new_edge_index' = cat \o Reverse(cat)
    /\ pc' = "enc_attr"
    /\ UNCHANGED <<arg, err, ret, x, edge_index, edge_attr, batch, jgVars, dsVars>>
    /\ UNCHANGED <<batch_size, virtual_index, repeated_virtual, all_nodes,
                   virtual_edges, new_edge_attr>>

\* lines 42-45
EncEdgeAttr ==
    /\ pc = "enc_attr"
    /\ LET zero_virtual_edge_attr == Zeros(Len(virtual_edges), edge_attr.w)
           cat == CatRows(edge_attr, zero_virtual_edge_attr)
       IN  new_edge_attr' = CatRows(cat, cat)
    /\ pc' = "enc_batch"
    /\ UNCHANGED <<arg, err, ret, x, edge_index, edge_attr, batch, jgVars, dsVars>>
    /\ UNCHANGED <<batch_size, virtual_index, repeated_virtual, all_nodes,
                   virtual_edges, new_edge_index>>

\* line 47
EncBatch ==
    /\ pc = "enc_batch"
    /\ batch' = batch \o Arange(0, batch_size)
    /\ pc' = "enc_layers"
    /\ UNCHANGED <<arg, err, ret, x, edge_index, edge_attr, jgVars, dsVars, encVars>>

\* lines 49-50
EncLayers ==
    /\ pc = "enc_layers"
    /\ x' = Layers(NumLayers, x, new_edge_index, new_edge_attr)
    /\ pc' = "enc_return"
    /\ UNCHANGED <<arg, err, ret, edge_index, edge_attr, batch, jgVars, dsVars, encVars>>

\* line 52
EncReturn ==
    /\ pc = "enc_return"
    /\ ret' = output_proj(LastRows(x, batch_size))
    /\ pc' = "done"
    /\ UNCHANGED <<arg, err, x, edge_index, edge_attr, batch, jgVars, dsVars, encVars>>

NextEnc ==
    \/ EncProject \/ EncVirtualTokens \/ EncVirtualEdges \/ EncEdges
    \/ EncEdgeAttr \/ EncBatch \/ EncLayers \/ EncReturn

SpecEnc == InitEnc /\ [][NextEnc]_vars

\* ---- claims about GraphTransformerEncoder.forward
InBatch == arg.batch
NReal == Len(InBatch)
EIn == Len(arg.edge_index)
InstanceIds == {InBatch[n] : n \in DOMAIN InBatch}
\* B = max(batch) + 1, for a non-empty batch vector
BOf == TensorMax(InBatch) + 1
\* the batch vector takes exactly the values 0..B-1
Dense == NReal >= 1 /\ InstanceIds = 0..(BOf - 1)
\* some instance id below B has no real node
HasEmptyInstance == NReal >= 1 /\ InstanceIds # 0..(BOf - 1)
Sorted == \A m, n \in DOMAIN InBatch : m <= n => InBatch[m] <= InBatch[n]
EncFinished == pc \in {"done", "raised"}
EdgesBuilt == pc \in {"enc_attr", "enc_batch", "enc_layers", "enc_return", "done"}
AttrBuilt == pc \in {"enc_batch", "enc_layers", "enc_return", "done"}

\* C6: for a batch vector with exactly the values 0..B-1 the output has B
\* rows, B the number of distinct instance ids, and row k is the projection
\* of the final representation of the virtual node at index N+k of the
\* augmented node tensor, whose instance id is k.
C6_OneRowPerInstance ==
    (Dense /\ pc = "done") =>
        /\ Len(ret) = Cardinality(InstanceIds)
        /\ Len(x) = NReal + Len(ret)
        /\ \A k \in 0..(Len(ret) - 1) :
              /\ ret[k + 1] = [x[NReal + k + 1] EXCEPT !.stage = "output"]
              /\ ret[k + 1] = [kind |-> "virtual", id |-> k,
                               layers |-> NumLayers, stage |-> "output"]
              /\ batch[NReal + k + 1] = k

\* three instances of one node each, or one instance of three nodes
C6_Witness ==
    /\ pc = "done" /\ Dense /\ NReal = MaxReal
    /\ Cardinality(InstanceIds) \in {1, MaxReal}
    /\ Len(ret) = Cardinality(InstanceIds)

VirtualEdgeCols == (EIn + 1)..(EIn + NReal)

\* C7: for every dense batch vector, in whatever order the instances'
\* nodes appear, every real node n has the edge (N + batch[n], n) from its
\* own instance's virtual token, and no virtual-token edge joins n to the
\* token of another instance.
C7_OwnVirtualToken ==
    (Dense /\ EdgesBuilt) =>
        \A n \in 0..(NReal - 1) :
            /\ \E c \in VirtualEdgeCols :
                  new_edge_index[c] = <<NReal + InBatch[n + 1], n>>
            /\ \A c \in VirtualEdgeCols :
                  new_edge_index[c][2] = n =>
                      new_edge_index[c][1] = NReal + InBatch[n + 1]

\* for batch vectors in non-decreasing order (as a batching loader packs
\* them) every node is attached to its own instance's token
Enc_SortedOwnVirtualToken ==
    (Dense /\ Sorted /\ EdgesBuilt) =>
        \A n \in 0..(NReal - 1) :
            /\ new_edge_index[EIn + n + 1] = <<NReal + InBatch[n + 1], n>>
            /\ new_edge_index[2 * EIn + NReal + n + 1] = <<n, NReal + InBatch[n + 1]>>

\* C8: when some instance id in 0..B-1 has no real node, the call raises
\* and returns no rows.
C8_EmptyInstanceRaises ==
    (HasEmptyInstance /\ EncFinished) => pc = "raised"

\* what the code does instead: it returns a row for every id up to the maximum
Enc_EmptyInstanceGetsRow ==
    (HasEmptyInstance /\ pc = "done") => Len(ret) = BOf

\* the input edge features, as rows
InAttrRow(e) ==
    IF arg.edge_attr.dim = 1 THEN <<arg.edge_attr.rows[e]>> ELSE arg.edge_attr.rows[e]
InAttrWidth == IF arg.edge_attr.dim = 1 THEN 1 ELSE arg.edge_attr.w

\* C10: the augmented edge set has 2*(E+N) columns and as many feature
\* rows; the reverse of column c <= E+N is column c+E+N, with the same
\* feature row; original edges keep their input feature row; virtual-token
\* edges, in either direction, have an all-zero row of the input width.
C10_BidirectionalAligned ==
    AttrBuilt =>
        LET H == EIn + NReal IN
        /\ Len(new_edge_index) = 2 * H
        /\ Len(new_edge_attr.rows) = 2 * H
        /\ \A c \in 1..H :
              /\ new_edge_index[c + H] = <<new_edge_index[c][2], new_edge_index[c][1]>>
              /\ new_edge_attr.rows[c + H] = new_edge_attr.rows[c]
        /\ \A e \in 1..EIn :
              /\ new_edge_index[e] = arg.edge_index[e]
              /\ new_edge_attr.rows[e] = InAttrRow(e)
        /\ \A c \in VirtualEdgeCols :
              /\ new_edge_index[c][1] >= NReal
              /\ new_edge_index[c][2] < NReal
              /\ Len(new_edge_attr.rows[c]) = InAttrWidth
              /\ AllZero(new_edge_attr.rows[c])
              /\ Len(new_edge_attr.rows[c + H]) = InAttrWidth
              /\ AllZero(new_edge_attr.rows[c + H])

C10_Witness ==
    /\ pc = "done" /\ EIn = MaxE /\ NReal = MaxReal
    /\ arg.edge_index[1][1] # arg.edge_index[1][2]
    /\ arg.edge_attr.dim = 1

====
